---- MODULE Spec2Model ----
(***************************************************************************)
(* Pharmacy inventory API (Django REST framework).                         *)
(*                                                                         *)
(* State machines over one set of variables:                               *)
(*   SpecLocations  the locations API (LocationViewSet with                *)
(*                  LocationSerializer.validate) over the Location table;  *)
(*   SpecRequests   one HTTP request through RequestLogMiddleware and the  *)
(*                  view it wraps (PharmacyInventoryViewSet.list for the   *)
(*                  inventory listing), over the RequestLog and            *)
(*                  InventorySearchLog tables;                             *)
(*   SpecInventory  the inventory API: records created and searched with   *)
(*                  PharmacyInventoryFilter;                               *)
(*   SpecPagination a list endpoint paginated by CustomPagination;         *)
(*   SpecAccess     the search-log endpoint under IsAdminOrSuperUser and   *)
(*                  the admin site's operations on the two log tables;     *)
(*   SpecPipeline   RequestLogMiddleware.__call__ in its two steps, the    *)
(*                  handler and then the audit row;                        *)
(*   SpecSearchLog  inventory listings by users, the admin site on the     *)
(*                  InventorySearchLog table, and the deletion of users;   *)
(*   SpecCatalogue  manufacturers, drugs, pharmacies and inventory records *)
(*                  created and deleted through their APIs;                *)
(*   SpecSites      the locations API together with the pharmacies that    *)
(*                  refer to locations.                                    *)
(***************************************************************************)
EXTENDS Integers, Sequences, FiniteSets, TLC

VARIABLES
    locations,      \* Location table: id -> [type, parent]
    nextLocId,      \* next primary key handed out by the Location table
    locReq,         \* the last request served by the locations API
    locResp,        \* its response
    requestLog,     \* RequestLog table, in insertion order
    searchLog,      \* InventorySearchLog table, in insertion order
    req,            \* the last HTTP request handed to the middleware
    listed,         \* what super().list computed for the request, if it ran
    view,           \* the response get_response(request) produced
    resp,           \* the response the client received
    manufacturers,  \* Manufacturer table: the ids of its rows
    drugs,          \* Drug table: id -> [generic_name, manufacturer]
    pharmacies,     \* Pharmacy table: id -> [location]
    inventory,      \* PharmacyInventory table: id -> record
    nextId,         \* next primary key of each of these four tables
    invReq,         \* the last request served by the inventory API
    invResp,        \* its response
    matching,       \* number of rows a list endpoint's queryset holds
    pageReq,        \* the last request served by the paginated endpoint
    pageResp,       \* its response
    access,         \* the last request for a log table (API or admin site)
    accessResp,     \* its response
    users,          \* User table: id -> the stored user
    now,            \* the server's clock
    apiReq,         \* the last request served by the manufacturers, drugs,
                    \* pharmacies or users API
    apiResp,        \* its response
    pc              \* where the middleware stands with the current request

locVars == <<locations, nextLocId, locReq, locResp>>
logVars == <<requestLog, searchLog, req, listed, view, resp>>
invVars == <<manufacturers, drugs, pharmacies, inventory, nextId, invReq, invResp>>
pageVars == <<matching, pageReq, pageResp>>
accessVars == <<access, accessResp>>
apiVars == <<users, now, apiReq, apiResp>>
vars == <<locations, nextLocId, locReq, locResp,
          requestLog, searchLog, req, listed, view, resp,
          manufacturers, drugs, pharmacies, inventory, nextId, invReq, invResp,
          matching, pageReq, pageResp, access, accessResp,
          users, now, apiReq, apiResp, pc>>

----------------------------------------------------------------------------
(* Bounds *)

\* Number of Location rows ever created (primary keys 1..MaxLoc).
MaxLoc == 2

----------------------------------------------------------------------------
(* Location model and LocationSerializer *)

\* Location.type labels: Province, County, City, District stand for the four
\* Persian labels of the source; Village is a label outside the table.
Province == "Province"
County == "County"
City == "City"
District == "District"
Village == "Village"
LocTypes == {Province, County, City, District, Village}

\* Python None as a reference to a Location, and a key the request data lacks.
None == 0
Unset == -1
NoType == "None"
Omitted == "<omitted>"

LocIds == 1..MaxLoc

\* hierarchy = {child type: required parent type}
hierarchyBadTable ==
    [t \in {District, City, County} |->
        IF t = District THEN County ELSE IF t = City THEN Province ELSE City]
hierarchy ==
    [t \in {District, City, County} |->
        IF t = District THEN City ELSE IF t = City THEN County ELSE Province]

\* hierarchy.get(loc_type): None for a type the table lacks.
hierarchy_get(loc_type) ==
    IF loc_type \in DOMAIN hierarchy THEN hierarchy[loc_type] ELSE NoType

\* data.get('type', getattr(self.instance, 'type', None))
loc_type_of(data, instance) ==
    IF data.type # Omitted THEN data.type
    ELSE IF instance = None THEN NoType
    ELSE locations[instance].type

\* data.get('parent', getattr(self.instance, 'parent', None))
parentNoFallback(data, instance) ==
    IF data.parent # Unset THEN data.parent ELSE None
parent_of(data, instance) ==
    IF data.parent # Unset THEN data.parent
    ELSE IF instance = None THEN None
    ELSE locations[instance].parent

\* LocationSerializer.validate: the set of fields the ValidationError names,
\* empty when the data is returned.
validateNoProvinceRule(data, instance) ==
    LET loc_type == loc_type_of(data, instance)
        parent == parent_of(data, instance)
    IN  IF loc_type = Province THEN {}
        ELSE IF parent = None THEN {}
        ELSE IF locations[parent].type # hierarchy_get(loc_type) THEN {"parent"}
        ELSE {}
validate(data, instance) ==
    LET loc_type == loc_type_of(data, instance)
        parent == parent_of(data, instance)
    IN  IF loc_type = Province
        THEN IF parent # None THEN {"parent"} ELSE {}
        ELSE IF parent = None THEN {"parent"}
        ELSE IF locations[parent].type # hierarchy_get(loc_type) THEN {"parent"}
        ELSE {}

\* Field validation of the ModelSerializer (to_internal_value): `type` is
\* required unless the update is partial; `parent` is optional, nullable and
\* must name a stored Location.
field_errors(data, partial) ==
    (IF data.type = Omitted /\ ~partial THEN {"type"} ELSE {})
    \cup (IF data.parent \notin {Unset, None} /\ data.parent \notin DOMAIN locations
          THEN {"parent"} ELSE {})

\* Serializer.run_validation: field errors first, validate() only without any.
run_validation(data, instance, partial) ==
    IF field_errors(data, partial) # {} THEN field_errors(data, partial)
    ELSE validate(data, instance)

\* Rows removed with `root`: parent is on_delete=CASCADE, so every row
\* reachable from root through children goes with it.
RECURSIVE collect(_, _)
collect(found, n) ==
    IF n = 0 THEN found
    ELSE collect(found \cup {i \in DOMAIN locations : locations[i].parent \in found},
                 n - 1)
cascade(root) == collect({root}, Cardinality(DOMAIN locations))

\* Request data of the locations API.
LocData ==
    [type : LocTypes \cup {Omitted}, parent : LocIds \cup {None, Unset}]

NoLocReq == [op |-> "none", pk |-> None, partial |-> FALSE,
             data |-> [type |-> Omitted, parent |-> Unset]]
NoLocResp == [status |-> 0, errors |-> {}]

\* POST /api/locations/
LocationCreate(data) ==
    /\ nextLocId <= MaxLoc
    /\ locReq' = [op |-> "create", pk |-> None, partial |-> FALSE, data |-> data]
    /\ LET errors == run_validation(data, None, FALSE)
       IN  IF errors = {}
           THEN /\ locations' =
                      [i \in DOMAIN locations \cup {nextLocId} |->
                          IF i = nextLocId
                          THEN [type |-> data.type, parent |-> parent_of(data, None)]
                          ELSE locations[i]]
                /\ nextLocId' = nextLocId + 1
                /\ locResp' = [status |-> 201, errors |-> {}]
           ELSE /\ UNCHANGED <<locations, nextLocId>>
                /\ locResp' = [status |-> 400, errors |-> errors]
    /\ UNCHANGED <<logVars, invVars, apiVars, pageVars, accessVars, pc>>

\* PUT (partial = FALSE) and PATCH (partial = TRUE) /api/locations/{pk}/
LocationUpdate(pk, partial, data) ==
    /\ locReq' = [op |-> "update", pk |-> pk, partial |-> partial, data |-> data]
    /\ IF pk \notin DOMAIN locations
       THEN /\ locResp' = [status |-> 404, errors |-> {}]
            /\ UNCHANGED locations
       ELSE LET errors == run_validation(data, pk, partial)
            IN  IF errors = {}
                THEN /\ locations' =
                           [locations EXCEPT ![pk] =
                               [type |-> IF data.type # Omitted THEN data.type
                                         ELSE locations[pk].type,
                                parent |-> IF data.parent # Unset THEN data.parent
                                           ELSE locations[pk].parent]]
                     /\ locResp' = [status |-> 200, errors |-> {}]
                ELSE /\ UNCHANGED locations
                     /\ locResp' = [status |-> 400, errors |-> errors]
    /\ UNCHANGED nextLocId
    /\ UNCHANGED <<logVars, invVars, apiVars, pageVars, accessVars, pc>>

\* Pharmacy.location = ForeignKey(Location, on_delete=models.PROTECT): the
\* pharmacies that refer to a row collected for deletion with `root`.
protectedRootOnly(root) ==
    {p \in DOMAIN pharmacies : pharmacies[p].location = root}
protected(root) ==
    {p \in DOMAIN pharmacies : pharmacies[p].location \in cascade(root)}

\* DELETE /api/locations/{pk}/: instance.delete() raises ProtectedError, which
\* is no APIException (500), before any row is removed.
LocationDestroy(pk) ==
    /\ locReq' = [op |-> "destroy", pk |-> pk, partial |-> FALSE,
                  data |-> [type |-> Omitted, parent |-> Unset]]
    /\ IF pk \notin DOMAIN locations
       THEN /\ locResp' = [status |-> 404, errors |-> {}]
            /\ UNCHANGED locations
       ELSE IF protected(pk) # {}
       THEN /\ locResp' = [status |-> 500, errors |-> {}]
            /\ UNCHANGED locations
       ELSE /\ locations' = [i \in DOMAIN locations \ cascade(pk) |-> locations[i]]
            /\ locResp' = [status |-> 204, errors |-> {}]
    /\ UNCHANGED nextLocId
    /\ UNCHANGED <<logVars, invVars, apiVars, pageVars, accessVars, pc>>

InitLocations ==
    /\ locations = [i \in {} |-> [type |-> Province, parent |-> None]]
    /\ nextLocId = 1
    /\ locReq = NoLocReq
    /\ locResp = NoLocResp

----------------------------------------------------------------------------
(* HTTP requests *)

\* Paths as their segments: <<"api", "inventory">> is /api/inventory/.
InventoryPath == <<"api", "inventory">>
UsersPath == <<"api", "users">>
SwaggerPath == <<"api", "swagger">>
AdminPath == <<"admin">>

JsonType == "application/json"

\* A JSON value: t names its type; s holds a string, l a list's elements,
\* o an object's (key, value) pairs.
JNull == [t |-> "null", s |-> "", l |-> <<>>, o |-> {}]
JNum(x) == [t |-> "num", s |-> x, l |-> <<>>, o |-> {}]
JStr(x) == [t |-> "str", s |-> x, l |-> <<>>, o |-> {}]
JList(x) == [t |-> "list", s |-> "", l |-> x, o |-> {}]
JObj(x) == [t |-> "obj", s |-> "", l |-> <<>>, o |-> x]

\* Strings of the request bodies, and whether 'password' is a substring.
PasswordText == "my password"
HasSubstringPassword(x) == x \in {"password", PasswordText}

Secret == "secret123"
Marker == "********"
Phone == "0911"
Login == {<<"password", Secret>>, <<"contact_number", Phone>>}
Profile == {<<"contact_number", Phone>>}

\* request.body: enc tells how the bytes decode, json what they parse to.
EmptyBody == [enc |-> "empty", json |-> JNull]
JsonBody(j) == [enc |-> "json", json |-> j]
Bodies ==
    {EmptyBody, [enc |-> "badutf8", json |-> JNull],
     [enc |-> "badjson", json |-> JNull]}
    \cup {JsonBody(j) : j \in {JNull, JNum("5"), JStr("hello"), JStr(PasswordText),
                               JList(<<"a">>), JList(<<"password">>),
                               JObj(Profile), JObj(Login)}}

\* request.GET: the query string's (key, value) pairs in order.
Aspirin == <<"drug_name", "aspirin">>
Queries ==
    {<<>>, <<Aspirin>>, <<Aspirin, <<"drug_name", "ibuprofen">>>>,
     <<Aspirin, <<"has_stock", "true">>>>}

\* request.META: a header string is the sequence of its comma-separated
\* parts, so "" is <<"">>; an absent header is <<>>. REMOTE_ADDR may be absent.
NoHeader == <<>>
NoAddr == "None"
ForwardedFor == {NoHeader, <<"">>, <<"10.0.0.1", "10.0.0.2">>}
DirectAddr == "192.168.0.9"
RemoteAddrs == {NoAddr, DirectAddr}

\* The requests served: a default request varied along one dimension at a
\* time (method and path; body and content type; query string; addresses).
Request(method, path, content_type, body, query, xff, addr) ==
    [method |-> method, path |-> path, content_type |-> content_type,
     body |-> body, GET |-> query, x_forwarded_for |-> xff, remote_addr |-> addr]
Requests ==
    {Request(m, p, JsonType, EmptyBody, <<>>, NoHeader, DirectAddr) :
        m \in {"GET", "POST", "OPTIONS"},
        p \in {InventoryPath, UsersPath, SwaggerPath, AdminPath}}
    \cup {Request(m, p, c, b, <<>>, NoHeader, DirectAddr) :
        m \in {"POST", "GET"}, p \in {UsersPath},
        c \in {JsonType, "multipart/form-data"}, b \in Bodies}
    \cup {Request("GET", p, JsonType, EmptyBody, q, NoHeader, DirectAddr) :
        p \in {InventoryPath, UsersPath}, q \in Queries}
    \cup {Request("POST", InventoryPath, JsonType, JsonBody(JObj(Profile)), q,
                  NoHeader, DirectAddr) : q \in Queries}
    \cup {Request("GET", InventoryPath, JsonType, EmptyBody, <<Aspirin>>, x, a) :
        x \in ForwardedFor, a \in RemoteAddrs}
    \cup {Request("POST", UsersPath, JsonType, JsonBody(JObj(Login)), <<>>, x, a) :
        x \in ForwardedFor, a \in RemoteAddrs}

----------------------------------------------------------------------------
(* RequestLogMiddleware and PharmacyInventoryViewSet.list *)

\* Number of RequestLog rows written.
MaxLog == 1

\* request.path.startswith('/api/')
startswith_api(path) == Len(path) >= 1 /\ path[1] = "api"

exclude_paths == {SwaggerPath, <<"api", "redoc">>}

\* The condition under which the middleware logs a request.
should_log(request) ==
    /\ startswith_api(request.path)
    /\ request.path \notin exclude_paths
    /\ request.method # "OPTIONS"

\* A truthy header string: present and not "".
truthy(header) == header # NoHeader /\ header # <<"">>

\* The middleware's client address: x_forwarded_for.split(',')[0], else
\* REMOTE_ADDR.
middleware_ip(request) ==
    IF truthy(request.x_forwarded_for) THEN request.x_forwarded_for[1]
    ELSE request.remote_addr

\* The same resolution in PharmacyInventoryViewSet.list.
list_ipRemoteAddr(request) == request.remote_addr
list_ip(request) ==
    IF truthy(request.x_forwarded_for) THEN request.x_forwarded_for[1]
    ELSE request.remote_addr

\* json.dumps(request.GET): a QueryDict serialises as a dict of each key's
\* last value.
dumps_GET(query) ==
    JObj({query[i] : i \in {i \in DOMAIN query :
                               \A j \in DOMAIN query : j > i => query[j][1] # query[i][1]}})

\* 'application/json' in request.content_type
is_json(content_type) == content_type = JsonType

\* A logged payload: "" (empty), a json.dumps text, or a placeholder.
Payload(kind, json, content_type) ==
    [kind |-> kind, json |-> json, content_type |-> content_type]
EmptyPayload == Payload("empty", JNull, "")
CouldNotDecode == Payload("undecodable", JNull, "")

\* `'password' in payload`: "yes", "no", or "TypeError" for a value that is
\* no container.
has_password(payload) ==
    CASE payload.t = "obj" ->
            IF \E kv \in payload.o : kv[1] = "password" THEN "yes" ELSE "no"
      [] payload.t = "list" ->
            IF \E i \in DOMAIN payload.l : payload.l[i] = "password" THEN "yes" ELSE "no"
      [] payload.t = "str" ->
            IF HasSubstringPassword(payload.s) THEN "yes" ELSE "no"
      [] OTHER -> "TypeError"

\* payload['password'] = '********' on a dict.
censorNothing(payload) == payload
censor(payload) ==
    JObj({kv \in payload.o : kv[1] # "password"} \cup {<<"password", Marker>>})

\* Lines 36-53: the payload to log, or the exception that escapes.
request_payload(request) ==
    IF request.method = "GET" /\ request.GET # <<>>
    THEN [raised |-> FALSE, value |-> Payload("json", dumps_GET(request.GET), "")]
    ELSE IF request.body.enc # "empty"
    THEN IF is_json(request.content_type)
         THEN IF request.body.enc \in {"badutf8", "badjson"}
              THEN [raised |-> FALSE, value |-> CouldNotDecode]
              ELSE LET payload == request.body.json
                   IN  IF has_password(payload) = "TypeError"
                       THEN [raised |-> TRUE, value |-> EmptyPayload]
                       ELSE IF has_password(payload) = "yes"
                       THEN IF payload.t = "obj"
                            THEN [raised |-> FALSE,
                                  value |-> Payload("json", censor(payload), "")]
                            ELSE [raised |-> TRUE, value |-> EmptyPayload]
                       ELSE [raised |-> FALSE, value |-> Payload("json", payload, "")]
         ELSE [raised |-> FALSE,
               value |-> Payload("nonjson", JNull, request.content_type)]
    ELSE [raised |-> FALSE, value |-> EmptyPayload]

\* <Model>.objects.create(..., ip_address=ip): ip_address is a
\* GenericIPAddressField without null=True, so None is refused (IntegrityError).
create_fails(ip) == ip = NoAddr

\* A response: its status and, for a listing, whether any record matched.
Response(status, matched) == [status |-> status, matched |-> matched]
NoResponse == Response(0, "none")

\* What super().list does: a 200 listing with no or some records, or a 400
\* raised from the filter backend before any logging.
ListOutcomes ==
    {Response(200, "none"), Response(200, "some"), Response(400, "none")}

is_inventory_list(request) ==
    request.path = InventoryPath /\ request.method = "GET"

\* PharmacyInventoryViewSet.list: the view's response, the search-log rows
\* written, and the listing super().list computed.
listLogsAlways(request, outcome) ==
    IF outcome.status # 200
    THEN [response |-> outcome, rows |-> <<>>, listed |-> NoResponse]
    ELSE IF create_fails(list_ip(request))
    THEN [response |-> Response(500, "none"), rows |-> <<>>, listed |-> outcome]
    ELSE [response |-> outcome, listed |-> outcome,
          rows |-> << [query_params |-> dumps_GET(request.GET),
                       ip_address |-> list_ip(request)] >>]
list(request, outcome) ==
    IF outcome.status # 200
    THEN [response |-> outcome, rows |-> <<>>, listed |-> NoResponse]
    ELSE IF request.GET # <<>>
    THEN IF create_fails(list_ip(request))
         THEN [response |-> Response(500, "none"), rows |-> <<>>, listed |-> outcome]
         ELSE [response |-> outcome, listed |-> outcome,
               rows |-> << [query_params |-> dumps_GET(request.GET),
                            ip_address |-> list_ip(request)] >>]
    ELSE [response |-> outcome, rows |-> <<>>, listed |-> outcome]

\* Lines 56-63: the RequestLog row of a request and the response to it.
RequestLogRowStatusOK(request, response) ==
    [endpoint |-> request.path,
     method |-> request.method,
     request_payload |-> request_payload(request).value,
     response_status |-> 200,
     ip_address |-> middleware_ip(request)]
RequestLogRow(request, response) ==
    [endpoint |-> request.path,
     method |-> request.method,
     request_payload |-> request_payload(request).value,
     response_status |-> response.status,
     ip_address |-> middleware_ip(request)]

\* RequestLogMiddleware.__call__ around a view result.
call(request, result) ==
    /\ Len(requestLog) < MaxLog
    /\ req' = request
    /\ listed' = result.listed
    /\ view' = result.response
    /\ searchLog' = searchLog \o result.rows
    /\ IF should_log(request)
       THEN IF request_payload(request).raised \/ create_fails(middleware_ip(request))
            THEN /\ resp' = Response(500, "none")
                 /\ UNCHANGED requestLog
            ELSE /\ requestLog' = Append(requestLog,
                                         RequestLogRow(request, result.response))
                 /\ resp' = result.response
       ELSE /\ resp' = result.response
            /\ UNCHANGED requestLog
    /\ UNCHANGED <<locVars, invVars, apiVars, pageVars, accessVars, pc>>

\* RequestLogMiddleware.__call__ in its two steps. Line 22: the handler runs
\* to its response (the inventory listing writes its search row in it).
get_response(request, result) ==
    /\ pc = "idle"
    /\ Len(requestLog) < MaxLog
    /\ req' = request
    /\ listed' = result.listed
    /\ view' = result.response
    /\ searchLog' = searchLog \o result.rows
    /\ resp' = NoResponse
    /\ pc' = "responded"
    /\ UNCHANGED <<requestLog, locVars, invVars, apiVars, pageVars, accessVars>>

\* Lines 26-65: the audit row is written and the response returned.
log_request ==
    /\ pc = "responded"
    /\ IF should_log(req)
       THEN IF request_payload(req).raised \/ create_fails(middleware_ip(req))
            THEN /\ resp' = Response(500, "none")
                 /\ UNCHANGED requestLog
            ELSE /\ requestLog' = Append(requestLog, RequestLogRow(req, view))
                 /\ resp' = view
       ELSE /\ resp' = view
            /\ UNCHANGED requestLog
    /\ pc' = "idle"
    /\ UNCHANGED <<req, listed, view, searchLog, locVars, invVars, apiVars, pageVars,
                   accessVars>>

\* Statuses of the views other than the inventory listing.
ViewStatuses(request) ==
    IF startswith_api(request.path) /\ request.path \notin exclude_paths
       /\ request.method # "OPTIONS"
    THEN {200, 400, 403, 404}
    ELSE {200}

\* GET /api/inventory/
InventoryList ==
    \E request \in Requests, outcome \in ListOutcomes :
        /\ is_inventory_list(request)
        /\ outcome.status = 400 => request.GET # <<>>
        /\ call(request, list(request, outcome))

\* Any other request.
OtherView ==
    \E request \in Requests :
        /\ ~is_inventory_list(request)
        /\ \E status \in ViewStatuses(request) :
              call(request, [response |-> Response(status, "none"), rows |-> <<>>,
                             listed |-> NoResponse])


InitRequests ==
    /\ requestLog = <<>>
    /\ searchLog = <<>>
    /\ req = Request("GET", AdminPath, JsonType, EmptyBody, <<>>, NoHeader, NoAddr)
    /\ listed = NoResponse
    /\ view = NoResponse
    /\ resp = NoResponse

----------------------------------------------------------------------------
(* Inventory API: PharmacyInventoryViewSet with PharmacyInventoryFilter *)

\* Number of PharmacyInventory rows ever created (primary keys 1..MaxInv).
MaxInv == 2

\* Text is the sequence of its characters. str.lower on a character.
lower(c) ==
    CASE c = "A" -> "a" [] c = "D" -> "d" [] c = "E" -> "e" [] c = "H" -> "h"
      [] c = "R" -> "r" [] c = "S" -> "s" [] c = "T" -> "t" [] OTHER -> c
Lower(text) == [i \in DOMAIN text |-> lower(text[i])]

\* `sub in text`
contains(text, sub) ==
    \E k \in 0..(Len(text) - Len(sub)) : SubSeq(text, k + 1, k + Len(sub)) = sub

\* The icontains lookup on a stored text.
containsCaseSensitive(text, value) == contains(text, value)
icontains(text, value) == contains(Lower(text), Lower(value))

\* The catalogue the inventory refers to: one chain Province - County - City -
\* District of named locations, pharmacies at a District, at a City and at a
\* Province (Pharmacy.location may name a Location of any type), two drugs
\* of one manufacturer.
SeedLocations ==
    [i \in 1..4 |->
        CASE i = 1 -> [name |-> <<"T", "e">>, type |-> Province, parent |-> None]
          [] i = 2 -> [name |-> <<"R", "e">>, type |-> County, parent |-> 1]
          [] i = 3 -> [name |-> <<"T", "e", "h">>, type |-> City, parent |-> 2]
          [] i = 4 -> [name |-> <<"D", "1">>, type |-> District, parent |-> 3]]
SeedPharmacies ==
    [i \in 1..3 |-> [location |-> IF i = 1 THEN 4 ELSE IF i = 2 THEN 3 ELSE 1]]
SeedDrugs ==
    [i \in 1..2 |->
        [generic_name |-> IF i = 1 THEN <<"A", "s", "p">> ELSE <<"I", "b", "u">>,
         manufacturer |-> 1]]

\* <Model>.objects.create and the removal of rows: a table is a function from
\* the primary keys of its rows; a key comes from the table's sequence and is
\* never handed out twice.
Insert(table, pk, row) ==
    [i \in DOMAIN table \cup {pk} |-> IF i = pk THEN row ELSE table[i]]
Remove(table, pks) == [i \in DOMAIN table \ pks |-> table[i]]
NextIds(manufacturer_, drug_, pharmacy_, inventory_) ==
    [manufacturer |-> manufacturer_, drug |-> drug_, pharmacy |-> pharmacy_,
     inventory |-> inventory_]

\* A date is the number of its day; a query string's date that does not parse.
NoDate == 0
BadDate == -1
Dates == 1..3

\* request.GET of an inventory search: `keys` holds the parameters the query
\* string carries, every other field the value of its parameter.
NoQuery ==
    [keys |-> {}, drug |-> 0, pharmacy |-> 0, drug_name |-> <<>>,
     location_district |-> <<>>, location_city |-> <<>>,
     location_county |-> <<>>, location_province |-> <<>>,
     has_stock |-> "", expire_date_after |-> NoDate, expire_date_before |-> NoDate]
Restrict(query, keys) ==
    [k \in DOMAIN NoQuery |->
        IF k = "keys" THEN keys ELSE IF k \in keys THEN query[k] ELSE NoQuery[k]]

\* forms.NullBooleanField behind BooleanFilter: the cleaned value of has_stock.
has_stock_initial(query) ==
    IF "has_stock" \notin query.keys THEN "True"
    ELSE IF query.has_stock \in {"true", "True", "2"} THEN "True"
    ELSE IF query.has_stock \in {"false", "False", "3"} THEN "False"
    ELSE "None"
has_stock_cleaned(query) ==
    IF query.has_stock \in {"true", "True", "2"} THEN "True"
    ELSE IF query.has_stock \in {"false", "False", "3"} THEN "False"
    ELSE "None"

\* IntegerField.get_prep_value of a bool: int(True) = 1, int(False) = 0.
get_prep_value(value) == IF value = "True" THEN 1 ELSE 0

\* has_stock = BooleanFilter(field_name='quantity', lookup_expr='gt'):
\* qs.filter(quantity__gt=value) unless the cleaned value is None.
has_stockGte(qs, query) ==
    IF has_stock_cleaned(query) = "None" THEN qs
    ELSE {i \in qs : inventory[i].quantity >= get_prep_value(has_stock_cleaned(query))}
has_stock(qs, query) ==
    IF has_stock_cleaned(query) = "None" THEN qs
    ELSE {i \in qs : inventory[i].quantity > get_prep_value(has_stock_cleaned(query))}

\* drug, pharmacy = NumberFilter(lookup_expr='exact')
drug(qs, query) ==
    IF query.drug = 0 THEN qs ELSE {i \in qs : inventory[i].drug = query.drug}
pharmacy(qs, query) ==
    IF query.pharmacy = 0 THEN qs
    ELSE {i \in qs : inventory[i].pharmacy = query.pharmacy}

\* drug_name = CharFilter(field_name='drug__generic_name', lookup_expr='icontains')
drug_name(qs, query) ==
    IF query.drug_name = <<>> THEN qs
    ELSE {i \in qs : icontains(drugs[inventory[i].drug].generic_name, query.drug_name)}

\* pharmacy__location(__parent){depth}: the Location the join reaches, None
\* where a parent is NULL.
RECURSIVE join_parent(_, _)
join_parent(location, depth) ==
    IF location = None \/ depth = 0 THEN location
    ELSE join_parent(locations[location].parent, depth - 1)

\* CharFilter(field_name='pharmacy__location(__parent){depth}__name',
\* lookup_expr='icontains')
location_filterUpTo(qs, value, depth) ==
    IF value = <<>> THEN qs
    ELSE {i \in qs :
            \E d \in 0..depth :
                LET node == join_parent(pharmacies[inventory[i].pharmacy].location, d)
                IN  node # None /\ icontains(locations[node].name, value)}
location_filter(qs, value, depth) ==
    IF value = <<>> THEN qs
    ELSE {i \in qs :
            LET node == join_parent(pharmacies[inventory[i].pharmacy].location, depth)
            IN  node # None /\ icontains(locations[node].name, value)}
location_district(qs, query) == location_filter(qs, query.location_district, 0)
location_city(qs, query) == location_filter(qs, query.location_city, 1)
location_county(qs, query) == location_filter(qs, query.location_county, 2)
location_province(qs, query) == location_filter(qs, query.location_province, 3)

\* expire_date = DateFromToRangeFilter(): RangeFilter.filter looks up `range`
\* with both ends, `gte` with the start only, `lte` with the stop only.
expire_dateExclusive(qs, query) ==
    LET start == query.expire_date_after
        stop == query.expire_date_before
    IN  IF start # NoDate /\ stop # NoDate
        THEN {i \in qs : start <= inventory[i].expire_date
                         /\ inventory[i].expire_date < stop}
        ELSE IF start # NoDate THEN {i \in qs : inventory[i].expire_date >= start}
        ELSE IF stop # NoDate THEN {i \in qs : inventory[i].expire_date < stop}
        ELSE qs
expire_date(qs, query) ==
    LET start == query.expire_date_after
        stop == query.expire_date_before
    IN  IF start # NoDate /\ stop # NoDate
        THEN {i \in qs : start <= inventory[i].expire_date
                         /\ inventory[i].expire_date <= stop}
        ELSE IF start # NoDate THEN {i \in qs : inventory[i].expire_date >= start}
        ELSE IF stop # NoDate THEN {i \in qs : inventory[i].expire_date <= stop}
        ELSE qs

\* FilterSet.is_valid: every parameter cleans (a date that does not parse
\* does not).
is_valid(query) ==
    query.expire_date_after # BadDate /\ query.expire_date_before # BadDate

\* FilterSet.filter_queryset: each declared filter narrows the queryset the
\* one before it returned.
filter_querysetLastWins(qs, query) ==
    LET filters == <<drug(qs, query), drug_name(qs, query), pharmacy(qs, query),
                     location_district(qs, query), location_city(qs, query),
                     location_county(qs, query), location_province(qs, query),
                     has_stock(qs, query), expire_date(qs, query)>>
        narrowing == {n \in DOMAIN filters : filters[n] # qs}
    IN  IF narrowing = {} THEN qs
        ELSE filters[CHOOSE n \in narrowing : \A m \in narrowing : m <= n]
filter_queryset(qs, query) ==
    expire_date(
        has_stock(
            location_province(
                location_county(
                    location_city(
                        location_district(
                            pharmacy(
                                drug_name(
                                    drug(qs, query),
                                    query), query), query), query), query), query),
            query), query)

\* Request data of POST /api/inventory/.
InventoryRecord(d, p, e, q) ==
    [drug |-> d, pharmacy |-> p, expire_date |-> e, quantity |-> q]
InventoryData ==
    {InventoryRecord(1, 1, 2, -1), InventoryRecord(1, 1, 2, 0),
     InventoryRecord(1, 1, 1, 1), InventoryRecord(1, 1, 3, 2),
     InventoryRecord(2, 2, 2, 2), InventoryRecord(1, 3, 2, 1),
     InventoryRecord(2, 2, 3, 0)}

\* The query strings searched with.
SearchQueries ==
    {Restrict([NoQuery EXCEPT !.has_stock = h, !.drug_name = <<"A", "S">>,
                              !.expire_date_after = 2, !.location_city = <<"t", "e">>],
              keys) :
        h \in {"true", "false", "", "1"},
        keys \in SUBSET {"has_stock", "drug_name", "expire_date_after", "location_city"}}
    \cup {[NoQuery EXCEPT !.keys = {"expire_date_after", "expire_date_before"},
                          !.expire_date_after = a, !.expire_date_before = b] :
            a \in Dates \cup {NoDate, BadDate}, b \in Dates \cup {NoDate, BadDate}}
    \cup {Restrict([NoQuery EXCEPT !.location_district = v, !.location_city = v,
                                   !.location_county = v, !.location_province = v],
                   {k}) :
            v \in {<<"t", "e">>, <<"T", "E", "H">>, <<"r", "e">>, <<"D", "1">>, <<>>},
            k \in {"location_district", "location_city", "location_county",
                   "location_province"}}
    \cup {Restrict([NoQuery EXCEPT !.drug = d, !.pharmacy = p, !.has_stock = "true"],
                   keys) :
            d \in 1..3, p \in 1..3,
            keys \in {{"drug"}, {"pharmacy"}, {"drug", "pharmacy"},
                      {"pharmacy", "has_stock"}}}


\* POST /api/inventory/: PharmacyInventoryWriteSerializer refuses a negative
\* quantity (PositiveIntegerField).
InventoryCreate(data) ==
    /\ nextId.inventory <= MaxInv
    /\ invReq' = [op |-> "create", pk |-> None, data |-> data, GET |-> NoQuery]
    /\ IF data.quantity >= 0 /\ data.drug \in DOMAIN drugs
          /\ data.pharmacy \in DOMAIN pharmacies
       THEN /\ inventory' = Insert(inventory, nextId.inventory, data)
            /\ nextId' = [nextId EXCEPT !.inventory = @ + 1]
            /\ invResp' = [status |-> 201, results |-> {}]
       ELSE /\ UNCHANGED <<inventory, nextId>>
            /\ invResp' = [status |-> 400, results |-> {}]
    /\ UNCHANGED <<manufacturers, drugs, pharmacies, pageVars, accessVars, apiVars, pc,
                   logVars, locVars>>

\* GET /api/inventory/?<query>: the records of the filtered queryset, or the
\* 400 of a query string that does not validate.
InventorySearch(query) ==
    /\ invReq' = [op |-> "list", pk |-> None, data |-> InventoryRecord(0, 0, 0, 0),
                  GET |-> query]
    /\ invResp' = IF is_valid(query)
                  THEN [status |-> 200,
                        results |-> filter_queryset(DOMAIN inventory, query)]
                  ELSE [status |-> 400, results |-> {}]
    /\ UNCHANGED <<manufacturers, drugs, pharmacies, inventory, nextId, pageVars,
                   accessVars, apiVars, pc, logVars, locVars>>

InitInventory ==
    /\ inventory = <<>>
    /\ invReq = [op |-> "none", pk |-> None, data |-> InventoryRecord(0, 0, 0, 0),
                 GET |-> NoQuery]
    /\ invResp = [status |-> 0, results |-> {}]

----------------------------------------------------------------------------
(* CustomPagination on a list endpoint *)

\* Number of rows the endpoint's queryset holds.
MaxRows == 102

page_size == 5
max_page_size == 100

\* Query-string values: an absent parameter, and int(text) of the texts that
\* have one.
Absent == "<absent>"
IntOf ==
    [text \in {"0", "00", "1", "2", "3", "-1", "6", "100", "101"} |->
        CASE text \in {"0", "00"} -> 0
          [] text = "1" -> 1 [] text = "2" -> 2 [] text = "3" -> 3
          [] text = "-1" -> -1 [] text = "6" -> 6
          [] text = "100" -> 100 [] text = "101" -> 101]
isdigit(text) == text \in DOMAIN IntOf /\ text # "-1"

\* _positive_int(text, strict=True, cutoff=max_page_size) within
\* get_page_size: the page size, page_size when the limit is absent or refused.
get_page_size(request) ==
    IF request.limit \in DOMAIN IntOf /\ IntOf[request.limit] > 0
    THEN IF IntOf[request.limit] < max_page_size THEN IntOf[request.limit]
         ELSE max_page_size
    ELSE page_size

\* Paginator.num_pages: ceil(max(1, count) / per_page)
num_pages(count, per_page) ==
    LET hits == IF count > 1 THEN count ELSE 1
    IN  (hits + per_page - 1) \div per_page

\* A response of the list endpoint: paginated or not, and the rows it carries
\* as the half-open range first..last of the queryset.
Page(status, paginated, bottom, top) ==
    [status |-> status, paginated |-> paginated, bottom |-> bottom, top |-> top]
NotFound == Page(404, FALSE, 0, 0)

\* PageNumberPagination.paginate_queryset: page `number` of the queryset, or
\* NotFound for an InvalidPage.
super_paginate_queryset(count, request) ==
    LET per_page == get_page_size(request)
        last == num_pages(count, per_page)
        number == IF request.page = Absent THEN 1
                  ELSE IF request.page = "last" THEN last
                  ELSE IF request.page \in DOMAIN IntOf THEN IntOf[request.page]
                  ELSE 0
        bottom == (number - 1) * per_page
    IN  IF request.page \notin DOMAIN IntOf \cup {Absent, "last"} THEN NotFound
        ELSE IF number < 1 \/ number > last THEN NotFound
        ELSE Page(200, TRUE, bottom,
                  IF bottom + per_page >= count THEN count ELSE bottom + per_page)

\* CustomPagination.paginate_queryset: None (every row, unpaginated) for
\* page=0.
paginate_querysetNoZero(count, request) == super_paginate_queryset(count, request)
paginate_queryset(count, request) ==
    IF request.page # Absent /\ isdigit(request.page) /\ IntOf[request.page] = 0
    THEN Page(200, FALSE, 0, count)
    ELSE super_paginate_queryset(count, request)

PageRequest(op, page, limit) == [op |-> op, page |-> page, limit |-> limit]

\* POST <list endpoint>: a row is added to the table the endpoint lists.
AddRow ==
    /\ matching < MaxRows
    /\ matching' = matching + 1
    /\ pageReq' = PageRequest("create", Absent, Absent)
    /\ pageResp' = Page(201, FALSE, 0, 0)
    /\ UNCHANGED <<locVars, logVars, invVars, apiVars, accessVars, pc>>

\* GET <list endpoint>?page=..&limit=..
ListPage(request) ==
    /\ pageReq' = request
    /\ pageResp' = paginate_queryset(matching, request)
    /\ UNCHANGED <<matching, locVars, logVars, invVars, apiVars, accessVars, pc>>

InitPagination ==
    /\ matching = 0
    /\ pageReq = PageRequest("none", Absent, Absent)
    /\ pageResp = Page(0, FALSE, 0, 0)

----------------------------------------------------------------------------
(* Access to the log tables: InventorySearchLogViewSet under               *)
(* IsAdminOrSuperUser, and the admin site's ModelAdmin of RequestLog       *)

\* request.user: AnonymousUser, or a User with its flags and its role's name.
NoRole == "None"
User(is_authenticated, is_superuser, role) ==
    [is_authenticated |-> is_authenticated, is_superuser |-> is_superuser,
     role |-> role]
AnonymousUser == User(FALSE, FALSE, NoRole)
Users ==
    {AnonymousUser}
    \cup {User(TRUE, s, r) : s \in BOOLEAN, r \in {NoRole, "Admin", "admin", "Pharmacist"}}

\* IsAdminOrSuperUser.has_permission
has_permissionAuthenticated(user) == user.is_authenticated
has_permission(user) ==
    IF ~user.is_authenticated THEN FALSE
    ELSE user.is_superuser \/ (user.role # NoRole /\ user.role = "Admin")

\* A request for a log table: through the API (method on the list route,
\* pk = None, or on the detail route) or through the admin site (op on row pk).
Access(via, user, method, pk, change) ==
    [via |-> via, user |-> user, method |-> method, pk |-> pk, change |-> change]
NoChange == <<"", "">>
AccessResponse(status, location) == [status |-> status, location |-> location]

\* ReadOnlyModelViewSet: the routes carry list and retrieve only, so the
\* view answers GET and, as every view set does, HEAD and OPTIONS.
http_method_names == {"GET", "HEAD", "OPTIONS"}

\* APIView.dispatch of InventorySearchLogViewSet: initial() checks the
\* permission before the method's handler is looked up; `denied` is the
\* status of the refusal (401 or 403 for a caller who did not authenticate,
\* as the authentication classes decide; 403 for one who did).
SearchLogApi(user, method, pk, denied) ==
    /\ access' = Access("api", user, method, pk, NoChange)
    /\ accessResp' =
          AccessResponse(IF ~has_permission(user) THEN denied
                         ELSE IF method \notin http_method_names THEN 405
                         ELSE IF pk # None /\ pk \notin DOMAIN searchLog THEN 404
                         ELSE 200, "")
    /\ user.is_authenticated => denied = 403
    /\ UNCHANGED <<locVars, logVars, invVars, apiVars, pageVars, pc>>

\* ModelAdmin.has_change_permission / has_delete_permission of the plain
\* admin.site.register(RequestLog): a staff user holding the permission, which
\* User.save grants to the superusers alone.
has_model_permission(user) == user.is_authenticated /\ user.is_superuser

\* The admin site's change and delete views of RequestLog: a caller who is no
\* staff is sent to the login page, the row is saved or deleted otherwise and
\* the caller sent back to the change list.
AdminRequestLog(user, op, pk, change) ==
    /\ access' = Access("admin", user, op, pk, IF op = "change" THEN change ELSE NoChange)
    /\ IF ~has_model_permission(user)
       THEN /\ accessResp' = AccessResponse(302, "login")
            /\ UNCHANGED requestLog
       ELSE IF pk \notin DOMAIN requestLog
       THEN /\ accessResp' = AccessResponse(302, "index")
            /\ UNCHANGED requestLog
       ELSE /\ accessResp' = AccessResponse(302, "changelist")
            /\ requestLog' =
                  IF op = "change"
                  THEN [requestLog EXCEPT ![pk] =
                          [@ EXCEPT ![change[1]] = change[2]]]
                  ELSE [i \in 1..(Len(requestLog) - 1) |->
                          IF i < pk THEN requestLog[i] ELSE requestLog[i + 1]]
    /\ UNCHANGED <<searchLog, req, listed, view, resp, locVars, invVars, apiVars,
                   pageVars, pc>>

\* The stored users: User.save makes a superuser of exactly the users whose
\* role is named Admin. request.user of a caller (None: no credentials).
SeedUsers ==
    [i \in 1..2 |->
        IF i = 1 THEN User(TRUE, TRUE, "Admin") ELSE User(TRUE, FALSE, "Pharmacist")]
request_user(caller) == IF caller = None THEN AnonymousUser ELSE users[caller]

\* InventorySearchLog.objects.create(user=user, query_params=..., ip_address=...)
\* in PharmacyInventoryViewSet.list: the row list() writes, with the caller
\* (None for an anonymous one) and the auto_now_add timestamp.
InventorySearchLogRow(row, caller, timestamp) ==
    [user |-> caller, query_params |-> row.query_params,
     ip_address |-> row.ip_address, timestamp |-> timestamp]

\* GET /api/inventory/?<query> by a caller: the view alone.
ListAs(caller, request) ==
    /\ now <= MaxLog
    /\ LET result == list(request, Response(200, "some"))
       IN  /\ searchLog' =
                  searchLog \o [i \in DOMAIN result.rows |->
                                  InventorySearchLogRow(result.rows[i], caller, now)]
           /\ access' = Access("search", request_user(caller), "GET", None, NoChange)
           /\ accessResp' = AccessResponse(result.response.status, "")
    /\ now' = now + 1
    /\ UNCHANGED <<users, apiReq, apiResp, requestLog, req, listed, view, resp,
                   locVars, invVars, pageVars, pc>>

\* InventorySearchLogAdmin: has_add_permission, has_change_permission and
\* has_delete_permission return False for every caller.
has_add_permission(user) == FALSE
has_change_permission(user) == FALSE
has_delete_permission(user) == FALSE

\* The admin site's add, change and delete views of InventorySearchLog: a
\* caller who is no staff is sent to the login page; the view raises
\* PermissionDenied (403) without the permission of its operation, before it
\* looks the row up.
AdminSearchLog(user, op, pk, change) ==
    /\ access' = Access("admin", user, op, pk, IF op = "change" THEN change ELSE NoChange)
    /\ LET permitted == CASE op = "add" -> has_add_permission(user)
                           [] op = "change" -> has_change_permission(user)
                           [] op = "delete" -> has_delete_permission(user)
       IN  IF ~has_model_permission(user)
           THEN /\ accessResp' = AccessResponse(302, "login")
                /\ UNCHANGED <<searchLog, now>>
           ELSE IF ~permitted
           THEN /\ accessResp' = AccessResponse(403, "")
                /\ UNCHANGED <<searchLog, now>>
           ELSE IF op # "add" /\ pk \notin DOMAIN searchLog
           THEN /\ accessResp' = AccessResponse(302, "index")
                /\ UNCHANGED <<searchLog, now>>
           ELSE /\ accessResp' = AccessResponse(302, "changelist")
                /\ searchLog' =
                      CASE op = "add" ->
                             Append(searchLog,
                                    [user |-> None, query_params |-> JNull,
                                     ip_address |-> change[2], timestamp |-> now])
                        [] op = "change" ->
                             [searchLog EXCEPT ![pk] =
                                 [@ EXCEPT ![change[1]] = change[2]]]
                        [] op = "delete" ->
                             [i \in 1..(Len(searchLog) - 1) |->
                                 IF i < pk THEN searchLog[i] ELSE searchLog[i + 1]]
                /\ now' = IF op = "add" THEN now + 1 ELSE now
    /\ UNCHANGED <<users, apiReq, apiResp, requestLog, req, listed, view, resp,
                   locVars, invVars, pageVars, pc>>

\* A request to the API of a table other than the locations' and the
\* inventory's, and its response; `deleted` is the number of rows
\* instance.delete() removed.
ApiRequest(api, op, caller, pk, data) ==
    [api |-> api, op |-> op, user |-> caller, pk |-> pk, data |-> data]
ApiResponse(status, deleted) == [status |-> status, deleted |-> deleted]

\* InventorySearchLog.user = ForeignKey(User, on_delete=models.SET_NULL): the
\* rows of a deleted user stay, their user set to NULL.
SET_NULLAsCascade(table, pk) == SelectSeq(table, LAMBDA row : row.user # pk)
SET_NULL(table, pk) ==
    [i \in DOMAIN table |->
        IF table[i].user = pk THEN [table[i] EXCEPT !.user = None] ELSE table[i]]

\* DELETE /api/users/{pk}/: UserViewSet under IsAdminOrSuperUser; `denied` is
\* the status of the refusal, as for the search-log endpoint.
UserDestroy(caller, pk, denied) ==
    /\ apiReq' = ApiRequest("users", "destroy", caller, pk, None)
    /\ caller # None => denied = 403
    /\ IF ~has_permission(request_user(caller))
       THEN /\ apiResp' = ApiResponse(denied, 0)
            /\ UNCHANGED <<users, searchLog>>
       ELSE IF pk \notin DOMAIN users
       THEN /\ apiResp' = ApiResponse(404, 0)
            /\ UNCHANGED <<users, searchLog>>
       ELSE /\ users' = Remove(users, {pk})
            /\ searchLog' = SET_NULL(searchLog, pk)
            /\ apiResp' = ApiResponse(204, 1)
    /\ UNCHANGED <<now, requestLog, req, listed, view, resp, locVars, invVars,
                   pageVars, accessVars, pc>>

InitAccess ==
    /\ access = Access("none", AnonymousUser, "", None, NoChange)
    /\ accessResp = AccessResponse(0, "")
    /\ users = SeedUsers
    /\ now = 1
    /\ apiReq = ApiRequest("none", "none", None, None, None)
    /\ apiResp = ApiResponse(0, 0)

----------------------------------------------------------------------------
(* Catalogue API: ManufacturerViewSet, DrugViewSet, PharmacyViewSet and    *)
(* the deletion of inventory records                                       *)

\* Number of Pharmacy rows ever created, and of rows ever created in the
\* four tables of the catalogue together.
MaxPharm == 1
MaxCreated == 4
Created ==
    (nextId.manufacturer - 1) + (nextId.drug - 1) + (nextId.pharmacy - 1)
    + (nextId.inventory - 1)

\* Drug.manufacturer = ForeignKey(Manufacturer, on_delete=models.CASCADE): the
\* drugs deleted with the manufacturers `ms`.
drugs_ofDoNothing(ms) == {}
drugs_of(ms) == {d \in DOMAIN drugs : drugs[d].manufacturer \in ms}

\* PharmacyInventory.drug and PharmacyInventory.pharmacy, both
\* on_delete=models.CASCADE: the records deleted with the drugs `ds` and the
\* pharmacies `ps`.
inventory_of(ds, ps) ==
    {i \in DOMAIN inventory : inventory[i].drug \in ds \/ inventory[i].pharmacy \in ps}

\* POST /api/manufacturers/
ManufacturerCreate ==
    /\ apiReq' = ApiRequest("manufacturers", "create", None, None, None)
    /\ manufacturers' = manufacturers \cup {nextId.manufacturer}
    /\ nextId' = [nextId EXCEPT !.manufacturer = @ + 1]
    /\ apiResp' = ApiResponse(201, 0)
    /\ UNCHANGED <<drugs, pharmacies, inventory, invReq, invResp, users, now,
                   locVars, logVars, pageVars, accessVars, pc>>

\* DELETE /api/manufacturers/{pk}/: the manufacturer goes with its drugs and
\* their inventory records.
ManufacturerDestroy(pk) ==
    /\ apiReq' = ApiRequest("manufacturers", "destroy", None, pk, None)
    /\ IF pk \notin manufacturers
       THEN /\ apiResp' = ApiResponse(404, 0)
            /\ UNCHANGED <<manufacturers, drugs, inventory>>
       ELSE LET ds == drugs_of({pk})
                records == inventory_of(ds, {})
            IN  /\ manufacturers' = manufacturers \ {pk}
                /\ drugs' = Remove(drugs, ds)
                /\ inventory' = Remove(inventory, records)
                /\ apiResp' = ApiResponse(204, 1 + Cardinality(ds) + Cardinality(records))
    /\ UNCHANGED <<pharmacies, nextId, invReq, invResp, users, now,
                   locVars, logVars, pageVars, accessVars, pc>>

\* POST /api/drugs/ under IsAuthenticatedOrReadOnly: `manufacturer` has to
\* name a stored Manufacturer.
DrugCreate(caller, data, denied) ==
    /\ apiReq' = ApiRequest("drugs", "create", caller, None, data.manufacturer)
    /\ IF ~request_user(caller).is_authenticated
       THEN /\ apiResp' = ApiResponse(denied, 0)
            /\ UNCHANGED <<drugs, nextId>>
       ELSE IF data.manufacturer \notin manufacturers
       THEN /\ apiResp' = ApiResponse(400, 0)
            /\ UNCHANGED <<drugs, nextId>>
       ELSE /\ drugs' = Insert(drugs, nextId.drug, data)
            /\ nextId' = [nextId EXCEPT !.drug = @ + 1]
            /\ apiResp' = ApiResponse(201, 0)
    /\ UNCHANGED <<manufacturers, pharmacies, inventory, invReq, invResp, users, now,
                   locVars, logVars, pageVars, accessVars, pc>>

\* DELETE /api/drugs/{pk}/: the drug goes with its inventory records.
DrugDestroy(caller, pk, denied) ==
    /\ apiReq' = ApiRequest("drugs", "destroy", caller, pk, None)
    /\ IF ~request_user(caller).is_authenticated
       THEN /\ apiResp' = ApiResponse(denied, 0)
            /\ UNCHANGED <<drugs, inventory>>
       ELSE IF pk \notin DOMAIN drugs
       THEN /\ apiResp' = ApiResponse(404, 0)
            /\ UNCHANGED <<drugs, inventory>>
       ELSE LET records == inventory_of({pk}, {})
            IN  /\ drugs' = Remove(drugs, {pk})
                /\ inventory' = Remove(inventory, records)
                /\ apiResp' = ApiResponse(204, 1 + Cardinality(records))
    /\ UNCHANGED <<manufacturers, pharmacies, nextId, invReq, invResp, users, now,
                   locVars, logVars, pageVars, accessVars, pc>>

\* POST /api/pharmacies/: `location` has to name a stored Location.
PharmacyCreate(location) ==
    /\ nextId.pharmacy <= MaxPharm
    /\ apiReq' = ApiRequest("pharmacies", "create", None, None, location)
    /\ IF location \notin DOMAIN locations
       THEN /\ apiResp' = ApiResponse(400, 0)
            /\ UNCHANGED <<pharmacies, nextId>>
       ELSE /\ pharmacies' = Insert(pharmacies, nextId.pharmacy, [location |-> location])
            /\ nextId' = [nextId EXCEPT !.pharmacy = @ + 1]
            /\ apiResp' = ApiResponse(201, 0)
    /\ UNCHANGED <<manufacturers, drugs, inventory, invReq, invResp, users, now,
                   locVars, logVars, pageVars, accessVars, pc>>

\* PATCH /api/pharmacies/{pk}/ with a location.
PharmacyUpdate(pk, location) ==
    /\ apiReq' = ApiRequest("pharmacies", "update", None, pk, location)
    /\ IF pk \notin DOMAIN pharmacies
       THEN /\ apiResp' = ApiResponse(404, 0)
            /\ UNCHANGED pharmacies
       ELSE IF location \notin DOMAIN locations
       THEN /\ apiResp' = ApiResponse(400, 0)
            /\ UNCHANGED pharmacies
       ELSE /\ pharmacies' = [pharmacies EXCEPT ![pk].location = location]
            /\ apiResp' = ApiResponse(200, 0)
    /\ UNCHANGED <<manufacturers, drugs, inventory, nextId, invReq, invResp, users, now,
                   locVars, logVars, pageVars, accessVars, pc>>

\* DELETE /api/pharmacies/{pk}/: the pharmacy goes with its inventory records.
PharmacyDestroy(pk) ==
    /\ apiReq' = ApiRequest("pharmacies", "destroy", None, pk, None)
    /\ IF pk \notin DOMAIN pharmacies
       THEN /\ apiResp' = ApiResponse(404, 0)
            /\ UNCHANGED <<pharmacies, inventory>>
       ELSE LET records == inventory_of({}, {pk})
            IN  /\ pharmacies' = Remove(pharmacies, {pk})
                /\ inventory' = Remove(inventory, records)
                /\ apiResp' = ApiResponse(204, 1 + Cardinality(records))
    /\ UNCHANGED <<manufacturers, drugs, nextId, invReq, invResp, users, now,
                   locVars, logVars, pageVars, accessVars, pc>>

\* DELETE /api/inventory/{pk}/
InventoryDestroy(pk) ==
    /\ invReq' = [op |-> "destroy", pk |-> pk, data |-> InventoryRecord(0, 0, 0, 0),
                  GET |-> NoQuery]
    /\ IF pk \notin DOMAIN inventory
       THEN /\ invResp' = [status |-> 404, results |-> {}]
            /\ UNCHANGED inventory
       ELSE /\ inventory' = Remove(inventory, {pk})
            /\ invResp' = [status |-> 204, results |-> {}]
    /\ UNCHANGED <<manufacturers, drugs, pharmacies, nextId, apiVars,
                   locVars, logVars, pageVars, accessVars, pc>>

----------------------------------------------------------------------------
(* Specifications *)

\* The tables of the catalogue without a row.
InitTables ==
    /\ manufacturers = {}
    /\ drugs = <<>>
    /\ pharmacies = <<>>
    /\ nextId = NextIds(1, 1, 1, 1)

Init ==
    /\ InitLocations /\ InitRequests /\ InitTables /\ InitInventory
    /\ InitPagination /\ InitAccess /\ pc = "idle"

CreateLocation == \E data \in LocData : LocationCreate(data)
\* PATCH bodies of every shape; PUT bodies that leave `parent` out (a PUT body
\* that carries it is validated and saved as the same PATCH body is). For a
\* row that does not exist (404 whatever the body) one body of each kind.
UpdateLocation ==
    \E pk \in LocIds, partial \in BOOLEAN, data \in LocData :
        /\ ~partial => data.parent = Unset
        /\ pk \notin DOMAIN locations => data = [type |-> Province, parent |-> Unset]
        /\ LocationUpdate(pk, partial, data)
DestroyLocation == \E pk \in LocIds : LocationDestroy(pk)

NextLocations == CreateLocation \/ UpdateLocation \/ DestroyLocation
SpecLocations == Init /\ [][NextLocations]_vars

NextRequests == InventoryList \/ OtherView
SpecRequests == Init /\ [][NextRequests]_vars

\* The inventory API over the seeded catalogue.
InitCatalogue ==
    /\ locations = SeedLocations /\ nextLocId = 5
    /\ locReq = NoLocReq /\ locResp = NoLocResp
    /\ manufacturers = {1}
    /\ drugs = SeedDrugs
    /\ pharmacies = SeedPharmacies
    /\ nextId = NextIds(2, 3, 4, 1)
    /\ InitRequests /\ InitInventory /\ InitPagination /\ InitAccess /\ pc = "idle"
NextInventory ==
    \/ \E data \in InventoryData : InventoryCreate(data)
    \/ \E query \in SearchQueries : InventorySearch(query)
SpecInventory == InitCatalogue /\ [][NextInventory]_vars

\* A paginated list endpoint.
NextPagination ==
    \/ AddRow
    \/ \E page \in {Absent, "0", "00", "1", "2", "3", "-1", "abc", "last"},
          limit \in {Absent, "0", "6", "100", "101", "abc"} :
            ListPage(PageRequest("list", page, limit))
SpecPagination == Init /\ [][NextPagination]_vars

\* The log tables: two requests that fill them, the search-log endpoint and
\* the admin site's RequestLog pages.
Serve ==
    \E request \in
        {Request("GET", InventoryPath, JsonType, EmptyBody, <<Aspirin>>, NoHeader,
                 DirectAddr),
         Request("POST", UsersPath, JsonType, JsonBody(JObj(Login)), <<>>, NoHeader,
                 DirectAddr)} :
        /\ Len(searchLog) < MaxLog
        /\ IF is_inventory_list(request)
           THEN call(request, list(request, Response(200, "some")))
           ELSE call(request, [response |-> Response(200, "none"), rows |-> <<>>,
                               listed |-> NoResponse])
NextAccess ==
    \/ Serve
    \/ \E user \in Users,
          method \in {"GET", "HEAD", "OPTIONS", "POST", "PUT", "PATCH", "DELETE"},
          pk \in {None} \cup 1..MaxLog, denied \in {401, 403} :
            SearchLogApi(user, method, pk, denied)
    \/ \E user \in Users, op \in {"change", "delete"}, pk \in 1..MaxLog,
          change \in {<<"ip_address", "10.9.9.9">>} :
            AdminRequestLog(user, op, pk, change)
SpecAccess == Init /\ [][NextAccess]_vars

\* The search log and the users: searches by the stored users and by
\* anonymous callers, the search-log endpoint, the admin site's pages of
\* InventorySearchLog, and the deletion of users.
NextSearchLog ==
    \/ \E caller \in {None} \cup DOMAIN users, query \in {<<>>, <<Aspirin>>} :
          ListAs(caller, Request("GET", InventoryPath, JsonType, EmptyBody, query,
                                 NoHeader, DirectAddr))
    \/ \E caller \in {None} \cup DOMAIN users,
          method \in {"GET", "POST", "PUT", "PATCH", "DELETE"},
          pk \in {None} \cup 1..MaxLog, denied \in {401, 403} :
            SearchLogApi(request_user(caller), method, pk, denied)
    \/ \E caller \in {None} \cup DOMAIN users, op \in {"add", "change", "delete"},
          pk \in 1..MaxLog, change \in {<<"ip_address", "10.9.9.9">>} :
            AdminSearchLog(request_user(caller), op, pk, change)
    \/ \E caller \in {None} \cup DOMAIN users, pk \in DOMAIN SeedUsers,
          denied \in {401, 403} :
            UserDestroy(caller, pk, denied)
SpecSearchLog == Init /\ [][NextSearchLog]_vars

\* The catalogue: rows created and deleted through the APIs of the
\* manufacturers, drugs, pharmacies and inventory, the locations seeded. A
\* request names a stored row or the next key, which no row has.
InitShop ==
    /\ locations = SeedLocations /\ nextLocId = 5
    /\ locReq = NoLocReq /\ locResp = NoLocResp
    /\ InitRequests /\ InitTables /\ InitInventory /\ InitPagination /\ InitAccess
    /\ pc = "idle"
NextCatalogue ==
    \/ Created < MaxCreated /\ ManufacturerCreate
    \/ \E pk \in manufacturers \cup {nextId.manufacturer} : ManufacturerDestroy(pk)
    \/ \E caller \in {None, 2}, m \in manufacturers \cup {nextId.manufacturer} :
          /\ Created < MaxCreated
          /\ DrugCreate(caller, [generic_name |-> <<"A", "s", "p">>, manufacturer |-> m],
                        401)
    \/ \E caller \in {None, 2}, pk \in DOMAIN drugs \cup {nextId.drug} :
          DrugDestroy(caller, pk, 401)
    \/ \E location \in {4, nextLocId} :
          Created < MaxCreated /\ PharmacyCreate(location)
    \/ \E pk \in DOMAIN pharmacies \cup {nextId.pharmacy} : PharmacyDestroy(pk)
    \/ \E d \in DOMAIN drugs \cup {nextId.drug},
          p \in DOMAIN pharmacies \cup {nextId.pharmacy} :
            Created < MaxCreated /\ InventoryCreate(InventoryRecord(d, p, 2, 1))
    \/ \E pk \in DOMAIN inventory \cup {nextId.inventory} : InventoryDestroy(pk)
SpecCatalogue == InitShop /\ [][NextCatalogue]_vars

\* The locations and the pharmacies at them: locations created along the
\* hierarchy, moved and deleted, pharmacies created, moved and deleted.
NextSites ==
    \/ \E type \in {Province, County, City}, parent \in {None} \cup DOMAIN locations :
          /\ type = Province <=> parent = None
          /\ LocationCreate([type |-> type, parent |-> parent])
    \/ \E pk \in DOMAIN locations, type \in {Omitted, City},
          parent \in DOMAIN locations :
            LocationUpdate(pk, TRUE, [type |-> type, parent |-> parent])
    \/ \E pk \in DOMAIN locations \cup {nextLocId} : LocationDestroy(pk)
    \/ \E location \in DOMAIN locations \cup {nextLocId} : PharmacyCreate(location)
    \/ \E pk \in DOMAIN pharmacies, location \in DOMAIN locations \cup {nextLocId} :
          PharmacyUpdate(pk, location)
    \/ \E pk \in DOMAIN pharmacies \cup {nextId.pharmacy} : PharmacyDestroy(pk)
SpecSites == Init /\ [][NextSites]_vars

\* The middleware in its two steps.
HandleInventoryList ==
    \E request \in Requests, outcome \in ListOutcomes :
        /\ is_inventory_list(request)
        /\ outcome.status = 400 => request.GET # <<>>
        /\ get_response(request, list(request, outcome))
HandleOther ==
    \E request \in Requests :
        /\ ~is_inventory_list(request)
        /\ \E status \in ViewStatuses(request) :
              get_response(request, [response |-> Response(status, "none"),
                                     rows |-> <<>>, listed |-> NoResponse])
NextPipeline == HandleInventoryList \/ HandleOther \/ log_request
SpecPipeline == Init /\ [][NextPipeline]_vars

----------------------------------------------------------------------------
(* Properties of the locations API (under SpecLocations) *)

\* The hierarchy rules of a (type, parent) pair against a Location table.
ChildParentPairs == {<<District, City>>, <<City, County>>, <<County, Province>>}
RulesHold(type, parent, table) ==
    IF type = Province THEN parent = None
    ELSE /\ parent # None
         /\ parent \in DOMAIN table
         /\ <<type, table[parent].type>> \in ChildParentPairs

\* The request passed field validation and reached validate().
ReachedValidate(r, table) ==
    /\ r.op \in {"create", "update"}
    /\ r.op = "update" => r.pk \in DOMAIN table
    /\ r.data.type = Omitted => r.partial
    /\ r.data.parent \in {Unset, None} \cup DOMAIN table

\* The (type, parent) pair a request results in: what the request supplies,
\* else what the table holds for the updated row.
ResultType(r, table) ==
    IF r.data.type # Omitted THEN r.data.type
    ELSE IF r.op = "update" THEN table[r.pk].type ELSE NoType
ResultParent(r, table) ==
    IF r.data.parent # Unset THEN r.data.parent
    ELSE IF r.op = "update" THEN table[r.pk].parent ELSE None

Accepted(response) == response.status \in {200, 201}

\* C1: in every reachable state every stored Province has no parent and every
\* other stored location has a parent whose stored type is the immediate
\* predecessor level.
C1_HierarchyInvariant ==
    \A i \in DOMAIN locations :
        RulesHold(locations[i].type, locations[i].parent, locations)

\* C2: a create request for a Province with a parent, or for any other type
\* with no parent, ends in a validation error and leaves the table unchanged.
C2_CreateRejected ==
    [][ ( /\ locReq'.op = "create"
          /\ locReq'.data.type # Omitted
          /\ \/ locReq'.data.type = Province /\ locReq'.data.parent \notin {None, Unset}
             \/ locReq'.data.type # Province /\ locReq'.data.parent \in {None, Unset} )
        => ( /\ locResp'.status = 400
             /\ locResp'.errors # {}
             /\ locations' = locations ) ]_vars

\* C2 witness: a Province create naming a stored parent was refused.
C2_Witness ==
    /\ locReq.op = "create"
    /\ locReq.data.type = Province
    /\ locReq.data.parent \in DOMAIN locations
    /\ locResp.status = 400

\* C3: a candidate with a non-Province type and a parent is accepted exactly
\* when (type, parent.type) is in the table District-City, City-County,
\* County-Province, and every refusal by the validator names the field parent.
C3_ParentTypeTable ==
    [][ /\ ( /\ ReachedValidate(locReq', locations)
             /\ ResultType(locReq', locations) # Province
             /\ ResultParent(locReq', locations) # None )
           => ( Accepted(locResp')
                <=> <<ResultType(locReq', locations),
                      locations[ResultParent(locReq', locations)].type>>
                        \in ChildParentPairs )
        /\ ( ReachedValidate(locReq', locations) /\ ~Accepted(locResp') )
           => ( locResp'.status = 400 /\ locResp'.errors = {"parent"} ) ]_vars

\* C3 witness: a County was created under a stored parent.
C3_Witness ==
    /\ locReq.op = "create"
    /\ locReq.data.type = County
    /\ locReq.data.parent \in DOMAIN locations
    /\ locResp.status = 201

\* C4: an update is decided on the resulting pair (the supplied value of each
\* of type and parent, an explicit null included, else the stored one), and an
\* accepted update stores that pair.
C4_UpdateResultingPair ==
    [][ ( /\ locReq'.op = "update"
          /\ ReachedValidate(locReq', locations) )
        => ( /\ Accepted(locResp')
                <=> RulesHold(ResultType(locReq', locations),
                              ResultParent(locReq', locations), locations)
             /\ Accepted(locResp')
                => locations'[locReq'.pk] =
                      [type |-> ResultType(locReq', locations),
                       parent |-> ResultParent(locReq', locations)] ) ]_vars

\* C4 witness: a PATCH supplying only an explicit null parent was refused on
\* the stored type of the row.
C4_Witness ==
    /\ locReq.op = "update"
    /\ locReq.pk \in DOMAIN locations
    /\ locReq.data.type = Omitted
    /\ locReq.data.parent = None
    /\ locations[locReq.pk].type # Province
    /\ locResp.status = 400

----------------------------------------------------------------------------
(* Properties of the request pipeline (under SpecRequests) *)

\* A request the audit log is to record: in the /api/ namespace, no
\* documentation path, not OPTIONS.
DocPaths == {<<"api", "swagger">>, <<"api", "redoc">>}
Audited(r) ==
    /\ r.path # <<>> /\ r.path[1] = "api"
    /\ r.path \notin DocPaths
    /\ r.method # "OPTIONS"

InventoryListing(r) == r.path = <<"api", "inventory">> /\ r.method = "GET"

\* The transport supplied the connection's address.
HasAddress(r) == r.remote_addr # NoAddr

AuditRowAdded == Len(requestLog') = Len(requestLog) + 1
SearchRowAdded == Len(searchLog') = Len(searchLog) + 1
LastAuditRow == requestLog[Len(requestLog)]

\* C5: an audited request adds exactly one RequestLog row whatever the view's
\* outcome; any other request adds none. (Stated for the requests that carry
\* the connection's address.)
C5_OneAuditRow ==
    [][ HasAddress(req')
        => IF Audited(req')
           THEN AuditRowAdded /\ SubSeq(requestLog', 1, Len(requestLog)) = requestLog
           ELSE requestLog' = requestLog ]_vars

\* The values a logged payload carries.
PayloadValues(p) ==
    {kv[2] : kv \in p.json.o} \cup {p.json.s} \cup {p.json.l[i] : i \in DOMAIN p.json.l}

\* C6: the row written for a POST whose JSON body is an object with a top-level
\* password carries the marker in place of the password and the other fields as
\* submitted, and no RequestLog row carries the submitted password.
C6_PasswordRedacted ==
    /\ [](\A i \in DOMAIN requestLog :
             Secret \notin PayloadValues(requestLog[i].request_payload))
    /\ [][ ( /\ req'.method = "POST"
             /\ req'.content_type = JsonType
             /\ req'.body.enc = "json"
             /\ req'.body.json.t = "obj"
             /\ \E kv \in req'.body.json.o : kv[1] = "password"
             /\ AuditRowAdded )
           => LET row == requestLog'[Len(requestLog')]
              IN  /\ row.request_payload.kind = "json"
                  /\ row.request_payload.json.t = "obj"
                  /\ \A kv \in row.request_payload.json.o :
                        kv[1] = "password" <=> kv[2] = Marker
                  /\ <<"password", Marker>> \in row.request_payload.json.o
                  /\ \A kv \in req'.body.json.o :
                        kv[1] # "password" => kv \in row.request_payload.json.o ]_vars

\* C6 witness: the row of a logged POST of a password carries the marker.
C6_Witness ==
    /\ req.method = "POST"
    /\ \E kv \in req.body.json.o : kv[1] = "password" /\ kv[2] = Secret
    /\ resp.status = 200
    /\ requestLog # <<>>
    /\ LastAuditRow.method = "POST"
    /\ <<"password", Marker>> \in LastAuditRow.request_payload.json.o

\* C7: the client receives exactly the response the view produced, whatever
\* the request body. (Stated for the requests that carry the connection's
\* address.)
C7_ResponseUnaltered == HasAddress(req) => resp = view

\* C8: an inventory listing served with status 200 for a request with query
\* parameters adds exactly one InventorySearchLog row, an inventory listing
\* without query parameters adds none, and no other request adds any.
C8_SearchRowOnlyForListing ==
    [][ /\ ( InventoryListing(req') /\ req'.GET # <<>> /\ resp'.status = 200 )
           => ( SearchRowAdded /\ SubSeq(searchLog', 1, Len(searchLog)) = searchLog )
        /\ ( InventoryListing(req') /\ req'.GET = <<>> ) => searchLog' = searchLog
        /\ ~InventoryListing(req') => searchLog' = searchLog ]_vars

\* C8 witness: a listing with a query parameter and no matching record was
\* served and its search row written.
C8_Witness ==
    /\ InventoryListing(req)
    /\ req.GET # <<>>
    /\ resp = Response(200, "none")
    /\ Len(searchLog) = 1

\* C9: the search row records every key=value pair of the request's query
\* string, every value of a repeated key included.
C9_AllPairsRecorded ==
    [][ SearchRowAdded
        => \A i \in DOMAIN req'.GET :
              req'.GET[i] \in searchLog'[Len(searchLog')].query_params.o ]_vars

\* C10: a listing that super().list computed is what the view returns, whether
\* or not the search row could be written.
C10_ListingReturned ==
    listed.status = 200 => view = listed

----------------------------------------------------------------------------
(* Properties of the inventory search (under SpecInventory) *)

\* The last request was a search that was served.
Searched == invReq.op = "list" /\ invResp.status = 200
Supplied(key) == key \in invReq.GET.keys

\* Two characters that are the same letter, whatever their case.
LetterCases ==
    {<<"A", "a">>, <<"D", "d">>, <<"E", "e">>, <<"H", "h">>, <<"R", "r">>,
     <<"S", "s">>, <<"T", "t">>}
SameLetter(a, b) == a = b \/ <<a, b>> \in LetterCases \/ <<b, a>> \in LetterCases
ContainsIgnoringCase(text, value) ==
    \E k \in 0..(Len(text) - Len(value)) :
        \A j \in 1..Len(value) : SameLetter(text[k + j], value[j])

\* The node reached from a record's pharmacy location by following exactly
\* `depth` parent links, None when the chain is shorter.
ParentOf(node) == IF node = None THEN None ELSE locations[node].parent
NodeAt(i, depth) ==
    LET l0 == pharmacies[inventory[i].pharmacy].location
    IN  CASE depth = 0 -> l0
          [] depth = 1 -> ParentOf(l0)
          [] depth = 2 -> ParentOf(ParentOf(l0))
          [] depth = 3 -> ParentOf(ParentOf(ParentOf(l0)))
NamedAt(i, depth, value) ==
    NodeAt(i, depth) # None
    /\ ContainsIgnoringCase(locations[NodeAt(i, depth)].name, value)
LocationKeys ==
    {<<"location_district", 0>>, <<"location_city", 1>>,
     <<"location_county", 2>>, <<"location_province", 3>>}

\* What a record has to satisfy for a supplied parameter other than has_stock.
Satisfies(i, query, key) ==
    CASE key = "drug" -> inventory[i].drug = query.drug
      [] key = "pharmacy" -> inventory[i].pharmacy = query.pharmacy
      [] key = "drug_name" ->
            ContainsIgnoringCase(drugs[inventory[i].drug].generic_name, query.drug_name)
      [] key = "expire_date_after" -> query.expire_date_after <= inventory[i].expire_date
      [] key = "expire_date_before" -> inventory[i].expire_date <= query.expire_date_before
      [] key = "has_stock" -> TRUE
      [] OTHER -> \E kd \in LocationKeys :
                     kd[1] = key /\ (query[key] = <<>> \/ NamedAt(i, kd[2], query[key]))

\* C11: a search with has_stock=true returns only records with quantity > 0;
\* a search without has_stock returns the records with quantity = 0 that
\* match the other supplied filters.
C11_HasStock ==
    Searched =>
        /\ ( Supplied("has_stock") /\ invReq.GET.has_stock = "true" )
           => \A i \in invResp.results : inventory[i].quantity > 0
        /\ ~Supplied("has_stock")
           => \A i \in DOMAIN inventory :
                 ( inventory[i].quantity = 0
                   /\ \A key \in invReq.GET.keys : Satisfies(i, invReq.GET, key) )
                 => i \in invResp.results

\* C11 witness: a search with another filter and no has_stock returned a
\* record with quantity 0.
C11_Witness ==
    /\ Searched
    /\ ~Supplied("has_stock")
    /\ invReq.GET.keys # {}
    /\ \E i \in invResp.results : inventory[i].quantity = 0

\* C12: the records returned for has_stock=true alone are exactly the records
\* whose quantity is greater than zero.
C12_HasStockIsPositive ==
    ( Searched /\ invReq.GET.keys = {"has_stock"} /\ invReq.GET.has_stock = "true" )
    => invResp.results = {i \in DOMAIN inventory : inventory[i].quantity > 0}

\* C25: a search with has_stock=true or has_stock=false returns no record
\* with quantity 0, and has_stock=false alone returns the records with
\* quantity > 0 (quantity compared with False by greater-than), not the
\* out-of-stock ones.
C25_HasStockFalse ==
    ( Searched /\ Supplied("has_stock") /\ invReq.GET.has_stock \in {"true", "false"} )
    => /\ \A i \in invResp.results : inventory[i].quantity > 0
       /\ ( invReq.GET.has_stock = "false" /\ invReq.GET.keys = {"has_stock"} )
          => invResp.results = {i \in DOMAIN inventory : inventory[i].quantity > 0}

\* C25 witness: a search with has_stock=false alone returned a record with
\* quantity 1 and left out a record with quantity 0.
C25_Witness ==
    /\ Searched
    /\ invReq.GET.keys = {"has_stock"}
    /\ invReq.GET.has_stock = "false"
    /\ \E i \in invResp.results : inventory[i].quantity = 1
    /\ \E i \in DOMAIN inventory \ invResp.results : inventory[i].quantity = 0

\* The filters of PharmacyInventoryFilter and the parameters of each.
FilterParams ==
    {{"drug"}, {"drug_name"}, {"pharmacy"}, {"location_district"},
     {"location_city"}, {"location_county"}, {"location_province"},
     {"has_stock"}, {"expire_date_after", "expire_date_before"}}
SuppliedFilters == {params \in FilterParams : params \cap invReq.GET.keys # {}}

\* The records one filter selects on its own: the search with that filter's
\* parameters only.
SelectedAlone(params) ==
    filter_queryset(DOMAIN inventory, Restrict(invReq.GET, params \cap invReq.GET.keys))

\* C13: a search returns exactly the records that every supplied filter
\* selects on its own, and every record when no filter is supplied.
C13_AllSuppliedFilters ==
    Searched =>
        invResp.results =
            {i \in DOMAIN inventory :
                \A params \in SuppliedFilters : i \in SelectedAlone(params)}

\* C13 witness: two filters were supplied and each selects on its own a record
\* the other does not; neither record was returned.
C13_Witness ==
    /\ Searched
    /\ \E f, g \in SuppliedFilters :
          /\ SelectedAlone(f) \ SelectedAlone(g) # {}
          /\ SelectedAlone(g) \ SelectedAlone(f) # {}
          /\ invResp.results \cap (SelectedAlone(f) \ SelectedAlone(g)) = {}
          /\ invResp.results \cap (SelectedAlone(g) \ SelectedAlone(f)) = {}

\* C14: a location filter with a value selects a record exactly when the node
\* at its depth (district 0, city 1, county 2, province 3) exists and its name
\* contains the value, case ignored; a record with a shorter chain is left out
\* and the request is served.
C14_ExactDepth ==
    \A kd \in LocationKeys :
        ( invReq.op = "list" /\ Supplied(kd[1]) /\ invReq.GET[kd[1]] # <<>>
          /\ is_valid(invReq.GET) )
        => /\ invResp.status = 200
           /\ \A i \in invResp.results : NamedAt(i, kd[2], invReq.GET[kd[1]])
           /\ invReq.GET.keys = {kd[1]}
              => invResp.results =
                    {i \in DOMAIN inventory : NamedAt(i, kd[2], invReq.GET[kd[1]])}

\* C14 witness: location_city selected the record of the pharmacy whose city
\* matches, not the record of the pharmacy located at the city itself (a match
\* at depth 0) nor the record of the pharmacy at a Province (no depth 1).
C14_Witness ==
    /\ Searched
    /\ invReq.GET.keys = {"location_city"}
    /\ invReq.GET.location_city = <<"t", "e">>
    /\ \E i \in invResp.results : inventory[i].pharmacy = 1
    /\ \E i \in DOMAIN inventory \ invResp.results :
          inventory[i].pharmacy \in {2, 3}

\* C15: the records returned are those matching the other filters whose
\* expiry date d has A <= d when expire_date_after = A is supplied and d <= B
\* when expire_date_before = B is supplied.
DateKeys == {"expire_date_after", "expire_date_before"}
C15_ExpireDateRange ==
    ( Searched /\ invReq.GET.keys \cap DateKeys # {} )
    => invResp.results =
          {i \in filter_queryset(DOMAIN inventory,
                                 Restrict(invReq.GET, invReq.GET.keys \ DateKeys)) :
              /\ ( Supplied("expire_date_after")
                   /\ invReq.GET.expire_date_after # NoDate )
                 => invReq.GET.expire_date_after <= inventory[i].expire_date
              /\ ( Supplied("expire_date_before")
                   /\ invReq.GET.expire_date_before # NoDate )
                 => inventory[i].expire_date <= invReq.GET.expire_date_before}

\* C15 witness: a search with both bounds returned a record expiring on the
\* upper bound and left out one expiring after it.
C15_Witness ==
    /\ Searched
    /\ invReq.GET.keys = DateKeys
    /\ invReq.GET.expire_date_after # NoDate
    /\ \E i \in invResp.results :
          inventory[i].expire_date = invReq.GET.expire_date_before
    /\ \E i \in DOMAIN inventory \ invResp.results :
          inventory[i].expire_date > invReq.GET.expire_date_before

----------------------------------------------------------------------------
(* Properties of pagination (under SpecPagination) *)

Returned == pageResp.top - pageResp.bottom
Listed == pageReq.op = "list"

\* C17 as stated: page=0 returns every matching row unpaginated; a request
\* without page returns exactly 5 rows when more than 5 match; a request with
\* limit gets no page of more than 100 rows.
C17_PaginationAsStated ==
    /\ ( Listed /\ pageReq.page = "0" )
       => ( pageResp.status = 200 /\ ~pageResp.paginated /\ Returned = matching )
    /\ ( Listed /\ pageReq.page = Absent /\ matching > 5 )
       => ( pageResp.status = 200 /\ Returned = 5 )
    /\ ( Listed /\ pageReq.limit # Absent /\ pageResp.paginated ) => Returned <= 100

\* C17 amended: as stated, the second part for a request without page and
\* without limit.
C17_Pagination ==
    /\ ( Listed /\ pageReq.page = "0" )
       => ( pageResp.status = 200 /\ ~pageResp.paginated /\ Returned = matching )
    /\ ( Listed /\ pageReq.page = Absent /\ pageReq.limit = Absent /\ matching > 5 )
       => ( pageResp.status = 200 /\ Returned = 5 )
    /\ ( Listed /\ pageReq.limit # Absent /\ pageResp.paginated ) => Returned <= 100

\* C17 witness: with more than 5 rows, a request without page and limit was
\* answered with the first 5.
C17_Witness ==
    /\ Listed
    /\ pageReq.page = Absent /\ pageReq.limit = Absent
    /\ matching > 5
    /\ pageResp.status = 200 /\ pageResp.paginated
    /\ pageResp.bottom = 0 /\ pageResp.top = 5

----------------------------------------------------------------------------
(* Properties of the access to the log tables (under SpecAccess) *)

\* A caller who is authenticated and a superuser or of the role named Admin.
Privileged(user) ==
    user.is_authenticated /\ (user.is_superuser \/ user.role = "Admin")
Denied(response) == response.status \in {401, 403}

\* C16: the search-log endpoint refuses every caller who is not privileged,
\* lists for those who are, answers no POST, PUT, PATCH or DELETE with a
\* success, and no request for it changes the InventorySearchLog table.
C16_SearchLogsAdminOnly ==
    /\ [](access.via = "api"
          => /\ ~Privileged(access.user) => Denied(accessResp)
             /\ ( Privileged(access.user) /\ access.method = "GET"
                  /\ access.pk = None ) => accessResp.status = 200
             /\ access.method \in {"POST", "PUT", "PATCH", "DELETE"}
                => accessResp.status \in {401, 403, 405})
    /\ [][ ( access'.via = "api" /\ <<access, accessResp>>' # <<access, accessResp>> )
           => searchLog' = searchLog ]_vars

\* C16 witness: a caller who is no superuser and whose role is named Admin was
\* given the listing while the table held a row.
C16_Witness ==
    /\ access.via = "api"
    /\ access.method = "GET" /\ access.pk = None
    /\ access.user = User(TRUE, FALSE, "Admin")
    /\ accessResp.status = 200
    /\ searchLog # <<>>

\* C20: a persisted RequestLog row is never changed and never deleted.
C20_RequestLogWriteOnce ==
    [][ \A i \in DOMAIN requestLog :
           i \in DOMAIN requestLog' /\ requestLog'[i] = requestLog[i] ]_vars

\* C22: in every reachable state every stored inventory record names a stored
\* drug and a stored pharmacy, and every stored drug a stored manufacturer.
C22_ReferentialIntegrity ==
    /\ \A i \in DOMAIN inventory :
          /\ inventory[i].drug \in DOMAIN drugs
          /\ inventory[i].pharmacy \in DOMAIN pharmacies
    /\ \A d \in DOMAIN drugs : drugs[d].manufacturer \in manufacturers

\* C22 witness: the deletion of a manufacturer removed three rows, the
\* manufacturer, the one drug ever created and an inventory record of that
\* drug, and left the record's pharmacy.
C22_Witness ==
    /\ apiReq.api = "manufacturers" /\ apiReq.op = "destroy"
    /\ apiResp.status = 204
    /\ apiResp.deleted = 3
    /\ nextId.drug = 2
    /\ DOMAIN drugs = {}
    /\ DOMAIN inventory = {}
    /\ DOMAIN pharmacies # {}

\* The locations from which following parent links, the location itself
\* included, reaches `root`.
RECURSIVE Reaches(_, _, _)
Reaches(l, root, steps) ==
    \/ l = root
    \/ /\ steps > 0
       /\ l \in DOMAIN locations
       /\ locations[l].parent # None
       /\ Reaches(locations[l].parent, root, steps - 1)
Subtree(root) ==
    {l \in DOMAIN locations : Reaches(l, root, Cardinality(DOMAIN locations))}

\* A step that serves a request to delete a stored location.
DestroysLocation ==
    /\ locReq'.op = "destroy"
    /\ locReq'.pk \in DOMAIN locations
    /\ <<locReq, locResp, locations>>' # <<locReq, locResp, locations>>

\* C23: every pharmacy's location is stored and every stored location's
\* parent is stored; deleting a location is refused, with every location and
\* pharmacy left as it was, when a pharmacy refers to the location or to one
\* of its descendants, and removes exactly the location and its descendants
\* otherwise.
C23_LocationDelete ==
    /\ [](/\ \A p \in DOMAIN pharmacies : pharmacies[p].location \in DOMAIN locations
          /\ \A l \in DOMAIN locations :
                locations[l].parent \in {None} \cup DOMAIN locations)
    /\ [][ DestroysLocation
           => /\ pharmacies' = pharmacies
              /\ IF \E p \in DOMAIN pharmacies :
                       pharmacies[p].location \in Subtree(locReq'.pk)
                 THEN locations' = locations /\ locResp'.status # 204
                 ELSE /\ DOMAIN locations' = DOMAIN locations \ Subtree(locReq'.pk)
                      /\ \A l \in DOMAIN locations' : locations'[l] = locations[l]
                      /\ locResp'.status = 204 ]_vars

\* C23 witness: the deletion of a location was refused because a pharmacy
\* stands at one of its children.
C23_Witness ==
    /\ locReq.op = "destroy"
    /\ locReq.pk \in DOMAIN locations
    /\ locResp.status = 500
    /\ \E p \in DOMAIN pharmacies :
          /\ pharmacies[p].location # locReq.pk
          /\ pharmacies[p].location \in DOMAIN locations
          /\ locations[pharmacies[p].location].parent = locReq.pk

\* Following parent links from `l` reaches a Province within `steps` steps.
RECURSIVE ProvinceWithin(_, _)
ProvinceWithin(l, steps) ==
    /\ l \in DOMAIN locations
    /\ \/ locations[l].type = Province
       \/ /\ steps > 0
          /\ locations[l].parent # None
          /\ ProvinceWithin(locations[l].parent, steps - 1)

\* C24: in every state reachable through the locations API no location is
\* its own parent or its own ancestor, and following parent links from any
\* location reaches a Province in at most 3 steps.
C24_LocationForest ==
    \A l \in DOMAIN locations :
        /\ ~( locations[l].parent # None
              /\ Reaches(locations[l].parent, l, Cardinality(DOMAIN locations)) )
        /\ ProvinceWithin(l, 3)

\* C21: a persisted InventorySearchLog row is never deleted and its
\* query_params, ip_address and timestamp never change, whatever the API, the
\* admin site or a user deletion does; its user stays while that user is
\* stored and is null once the user is deleted, so no row refers to a user
\* that is not stored.
C21_SearchLogWriteOnce ==
    /\ [](\A i \in DOMAIN searchLog : searchLog[i].user \in {None} \cup DOMAIN users)
    /\ [][ \A i \in DOMAIN searchLog :
             /\ i \in DOMAIN searchLog'
             /\ searchLog'[i].query_params = searchLog[i].query_params
             /\ searchLog'[i].ip_address = searchLog[i].ip_address
             /\ searchLog'[i].timestamp = searchLog[i].timestamp
             /\ searchLog'[i].user = IF searchLog[i].user \in DOMAIN users'
                                     THEN searchLog[i].user ELSE None ]_vars

\* C21 witness: the latest search was made by a stored user and wrote a row;
\* that user was then deleted through the users API, and the row is kept with
\* a null user.
C21_Witness ==
    /\ access.via = "search"
    /\ access.user.is_authenticated
    /\ accessResp.status = 200
    /\ apiReq.api = "users" /\ apiReq.op = "destroy"
    /\ apiResp.status = 204
    /\ searchLog # <<>>
    /\ searchLog[Len(searchLog)].timestamp = now - 1
    /\ searchLog[Len(searchLog)].user = None
    /\ searchLog[Len(searchLog)].ip_address = DirectAddr

----------------------------------------------------------------------------
(* Properties of the recorders (under SpecPipeline and SpecRequests) *)

\* The address a log row is to carry: the first comma-separated token of the
\* forwarded-for header when the header is present and not empty, the
\* connection's address otherwise.
ClientIp(r) ==
    IF r.x_forwarded_for # <<>> /\ r.x_forwarded_for # <<"">>
    THEN Head(r.x_forwarded_for)
    ELSE r.remote_addr

\* C18: the audit row is written after the handler has run to its response
\* (for an inventory search, after the search row of the request), and its
\* response status is the status of the response the client receives.
C18_AuditRowAfterHandler ==
    [][ AuditRowAdded
        => /\ pc = "responded"
           /\ view # NoResponse
           /\ searchLog' = searchLog
           /\ ( InventoryListing(req) /\ req.GET # <<>> /\ view.status = 200 )
              => ( searchLog # <<>>
                   /\ searchLog[Len(searchLog)].ip_address = ClientIp(req) )
           /\ req' = req
           /\ requestLog'[Len(requestLog')].endpoint = req.path
           /\ requestLog'[Len(requestLog')].response_status = resp'.status ]_vars

\* C18 witness: an inventory search was served, its search row and then its
\* audit row written, and the audit row records the 200 the client received.
C18_Witness ==
    /\ pc = "idle"
    /\ InventoryListing(req)
    /\ req.GET # <<>>
    /\ resp.status = 200
    /\ searchLog # <<>>
    /\ requestLog # <<>>
    /\ LastAuditRow.endpoint = req.path
    /\ LastAuditRow.response_status = 200

\* C19: every row written carries the client address of its request, so the
\* search row and the audit row of one inventory search carry the same.
C19_ClientIp ==
    [][ /\ AuditRowAdded
           => requestLog'[Len(requestLog')].ip_address = ClientIp(req')
        /\ SearchRowAdded
           => searchLog'[Len(searchLog')].ip_address = ClientIp(req')
        /\ ( AuditRowAdded /\ SearchRowAdded )
           => requestLog'[Len(requestLog')].ip_address
                 = searchLog'[Len(searchLog')].ip_address ]_vars

\* C19 witness: an inventory search that came through two proxies left both
\* rows with the first address of the header.
C19_Witness ==
    /\ InventoryListing(req)
    /\ Len(req.x_forwarded_for) = 2
    /\ requestLog # <<>> /\ searchLog # <<>>
    /\ LastAuditRow.ip_address = req.x_forwarded_for[1]
    /\ searchLog[Len(searchLog)].ip_address = req.x_forwarded_for[1]

====
